---- MODULE Spec2Model ----
(***************************************************************************)
(* Model of httpd2 (src/src/main.rs): the path normalizer                  *)
(* (PercentDecoder + Sanitizer = sanitize_path), the picky_open family and *)
(* serve_files, and the start-up sequence (load_key_and_cert, bind,        *)
(* drop_privs, accept loop).                                               *)
(*                                                                         *)
(* Characters are code points (naturals), strings are sequences of them.   *)
(***************************************************************************)
EXTENDS Integers, Sequences, FiniteSets, TLC

\* ------------------------------------------------------------------------
\* Characters
\* ------------------------------------------------------------------------
NUL == 0
PERCENT == 37
DOT == 46
SLASH == 47
COLON == 58
UNDERSCORE == 95

\* F applied to the value of v, v being evaluated once.
Let(v, F(_)) == CHOOSE y \in {F(x) : x \in {v}} : TRUE

\* Option<char>::None, as returned by Iterator::next at the end of input.
None == -1

\* The characters the enumerated request paths are built from:
\* NUL % . / 0 2 5 F e g   ('g' is not a hex digit).
Alphabet == {0, 37, 46, 47, 48, 50, 53, 70, 101, 103}

\* Longest enumerated request path.
MaxLen == 4

RECURSIVE StringsUpTo(_)
StringsUpTo(n) ==
    IF n = 0 THEN {<<>>}
    ELSE LET S == StringsUpTo(n - 1)
         IN  S \cup {Append(s, c) : s \in {t \in S : Len(t) = n - 1}, c \in Alphabet}

\* The inputs of the unit tests tests::sanitize, tests::percent_decode and
\* tests::percent_and_sanitize, in source order.
TestInputs ==
    { <<>>,
      <<47, 47, 47>>,
      <<46>>,
      <<47, 46>>,
      <<46, 46>>,
      <<0>>,
      <<47, 0>>,
      <<47, 47, 46, 46, 47, 46, 47, 100, 111, 99, 46, 112, 100, 102, 0, 47>>,
      <<37>>,
      <<37, 52>>,
      <<37, 52, 49>>,
      <<37, 52, 97>>,
      <<37, 52, 65>>,
      <<37, 52, 103>>,
      <<37, 50, 53, 50, 53>>,
      <<37, 50, 102>>,
      <<37, 50, 102, 37, 50, 70>>,
      <<37, 50, 102, 37, 50, 101, 37, 50, 101>>,
      <<37, 50, 102, 37, 50, 101, 37, 50, 101, 37, 48, 48>> }

Inputs == StringsUpTo(MaxLen) \cup TestInputs

\* ------------------------------------------------------------------------
\* PercentDecoder
\* ------------------------------------------------------------------------
PNormal == [tag |-> "Normal", x |-> None, y |-> None]
\* A decoder that forgets the first character consumed after an invalid `%`.
Unspool2DropsFirst(x, y) == [tag |-> "Unspool", x |-> None, y |-> y]
Unspool2(x, y) == [tag |-> "Unspool2", x |-> x, y |-> y]
Unspool(y) == [tag |-> "Unspool", x |-> None, y |-> y]

\* A hexit that knows lower-case digits only.
hexitLowerOnly(c) ==
    IF c >= 48 /\ c <= 57 THEN c - 48
    ELSE IF c >= 97 /\ c <= 102 THEN c - 97 + 10
    ELSE None

\* fn hexit(c: char) -> Option<u8>
hexit(c) ==
    IF c >= 48 /\ c <= 57 THEN c - 48
    ELSE IF c >= 65 /\ c <= 70 THEN c - 65 + 10
    ELSE IF c >= 97 /\ c <= 102 THEN c - 97 + 10
    ELSE None

\* Bitwise or of two naturals.
RECURSIVE BitOr(_, _)
BitOr(a, b) ==
    IF a = 0 THEN b
    ELSE IF b = 0 THEN a
    ELSE (IF a % 2 = 1 \/ b % 2 = 1 THEN 1 ELSE 0) + 2 * BitOr(a \div 2, b \div 2)

\* Bitwise and of two naturals.
RECURSIVE BitAnd(_, _)
BitAnd(a, b) ==
    IF a = 0 \/ b = 0 THEN 0
    ELSE (IF a % 2 = 1 /\ b % 2 = 1 THEN 1 ELSE 0) + 2 * BitAnd(a \div 2, b \div 2)

\* (x << 4 | y) as char, on u8 operands.
DecodeByte(x, y) == BitOr((x * 16) % 256, y)

\* Iterator::next of the innermost iterator, path.chars().
CharsNext(rest) ==
    IF rest = <<>> THEN [item |-> None, rest |-> rest]
    ELSE [item |-> Head(rest), rest |-> Tail(rest)]

\* A decoder that decodes again when an escape decodes to `%` and two hex
\* digits follow.
PercentDecoderNextAgain(state, rest) ==
    IF state.tag = "Normal" THEN
        LET c == CharsNext(rest) IN
        IF c.item = None THEN [item |-> None, state |-> state, rest |-> c.rest]
        ELSE IF c.item = PERCENT THEN
            LET x == CharsNext(c.rest) IN
            IF x.item = None
            THEN [item |-> PERCENT, state |-> state, rest |-> x.rest]
            ELSE LET y == CharsNext(x.rest) IN
                 IF y.item = None
                 THEN [item |-> PERCENT, state |-> Unspool(x.item), rest |-> y.rest]
                 ELSE IF hexit(x.item) # None /\ hexit(y.item) # None
                 THEN IF /\ DecodeByte(hexit(x.item), hexit(y.item)) = PERCENT
                         /\ Len(y.rest) >= 2
                         /\ hexit(y.rest[1]) # None /\ hexit(y.rest[2]) # None
                      THEN [item |-> DecodeByte(hexit(y.rest[1]), hexit(y.rest[2])),
                            state |-> state, rest |-> SubSeq(y.rest, 3, Len(y.rest))]
                      ELSE [item |-> DecodeByte(hexit(x.item), hexit(y.item)),
                            state |-> state, rest |-> y.rest]
                 ELSE [item |-> PERCENT, state |-> Unspool2(x.item, y.item),
                       rest |-> y.rest]
        ELSE [item |-> c.item, state |-> state, rest |-> c.rest]
    ELSE IF state.tag = "Unspool2" THEN
        [item |-> state.x, state |-> Unspool(state.y), rest |-> rest]
    ELSE
        [item |-> state.y, state |-> PNormal, rest |-> rest]

\* PercentDecoder::next: the item yielded, the new state and what is left of
\* the inner iterator.
PercentDecoderNext(state, rest) ==
    IF state.tag = "Normal" THEN
        LET c == CharsNext(rest) IN
        IF c.item = None THEN [item |-> None, state |-> state, rest |-> c.rest]
        ELSE IF c.item = PERCENT THEN
            LET x == CharsNext(c.rest) IN
            IF x.item = None
            THEN [item |-> PERCENT, state |-> state, rest |-> x.rest]
            ELSE LET y == CharsNext(x.rest) IN
                 IF y.item = None
                 THEN [item |-> PERCENT, state |-> Unspool(x.item), rest |-> y.rest]
                 ELSE IF hexit(x.item) # None /\ hexit(y.item) # None
                 THEN [item |-> DecodeByte(hexit(x.item), hexit(y.item)),
                       state |-> state, rest |-> y.rest]
                 ELSE [item |-> PERCENT, state |-> Unspool2(x.item, y.item),
                       rest |-> y.rest]
        ELSE [item |-> c.item, state |-> state, rest |-> c.rest]
    ELSE IF state.tag = "Unspool2" THEN
        [item |-> state.x, state |-> Unspool(state.y), rest |-> rest]
    ELSE
        [item |-> state.y, state |-> PNormal, rest |-> rest]

\* ------------------------------------------------------------------------
\* Sanitizer
\* ------------------------------------------------------------------------
SanitizerState == {"EmitDot", "EmitSlash", "Normal", "Slash"}

\* A sanitizer without the (Slash, '.') arm.
SanitizerMatchKeepsDot(state, c) ==
    IF c = NUL THEN [emit |-> UNDERSCORE, state |-> "Normal"]
    ELSE IF state = "Normal" /\ c = SLASH THEN [emit |-> SLASH, state |-> "Slash"]
    ELSE IF state = "Slash" /\ c = SLASH THEN [emit |-> None, state |-> state]
    ELSE [emit |-> c, state |-> "Normal"]

\* A sanitizer whose '/' arm forgets to enter state Slash.
SanitizerMatchKeepsSlashes(state, c) ==
    IF c = NUL THEN [emit |-> UNDERSCORE, state |-> "Normal"]
    ELSE IF state = "Normal" /\ c = SLASH THEN [emit |-> SLASH, state |-> "Normal"]
    ELSE IF state = "Slash" /\ c = SLASH THEN [emit |-> None, state |-> state]
    ELSE IF state = "Slash" /\ c = DOT THEN [emit |-> COLON, state |-> "Normal"]
    ELSE [emit |-> c, state |-> "Normal"]

\* The match of Sanitizer::next on (state, character): what is emitted (None
\* for `continue`) and the state afterwards.
SanitizerMatch(state, c) ==
    IF c = NUL THEN [emit |-> UNDERSCORE, state |-> "Normal"]
    ELSE IF state = "Normal" /\ c = SLASH THEN [emit |-> SLASH, state |-> "Slash"]
    ELSE IF state = "Slash" /\ c = SLASH THEN [emit |-> None, state |-> state]
    ELSE IF state = "Slash" /\ c = DOT THEN [emit |-> COLON, state |-> "Normal"]
    ELSE [emit |-> c, state |-> "Normal"]

\* The loop of Sanitizer::next: pull decoded characters until one is emitted
\* or the inner iterator ends.
RECURSIVE SanitizerLoop(_, _, _)
SanitizerLoop(state, pstate, rest) ==
    Let(PercentDecoderNext(pstate, rest), LAMBDA d :
        IF d.item = None
        THEN [item |-> None, state |-> state, pstate |-> d.state, rest |-> d.rest]
        ELSE Let(SanitizerMatch(state, d.item), LAMBDA m :
                 IF m.emit = None
                 THEN SanitizerLoop(m.state, d.state, d.rest)
                 ELSE [item |-> m.emit, state |-> m.state, pstate |-> d.state,
                       rest |-> d.rest]))

\* Sanitizer::next.
SanitizerNext(state, pstate, rest) ==
    IF state = "EmitDot"
    THEN [item |-> DOT, state |-> "EmitSlash", pstate |-> pstate, rest |-> rest]
    ELSE IF state = "EmitSlash"
    THEN [item |-> SLASH, state |-> "Slash", pstate |-> pstate, rest |-> rest]
    ELSE SanitizerLoop(state, pstate, rest)

\* collect(): call next() until it yields None.
RECURSIVE Collect(_, _, _, _)
Collect(state, pstate, rest, acc) ==
    Let(SanitizerNext(state, pstate, rest), LAMBDA r :
        IF r.item = None THEN acc
        ELSE Collect(r.state, r.pstate, r.rest, Append(acc, r.item)))

\* fn sanitize_path(path: &str) -> String
sanitize_path(path) == Collect("EmitDot", PNormal, path, <<>>)

\* ------------------------------------------------------------------------
\* Strings used by the request handler
\* ------------------------------------------------------------------------
\* An index file that is a hidden file.
IndexHtmlHidden == <<47, 46, 105, 110, 100, 101, 120, 46, 104, 116, 109, 108>>

\* The name of the index file without the `/` before it.
IndexHtmlNoSlash == <<105, 110, 100, 101, 120, 46, 104, 116, 109, 108>>

\* "/index.html"
IndexHtml == <<47, 105, 110, 100, 101, 120, 46, 104, 116, 109, 108>>
\* ".gz"
DotGz == <<46, 103, 122>>
\* "gzip"
Gzip == <<103, 122, 105, 112>>

\* ------------------------------------------------------------------------
\* map_content_type
\* ------------------------------------------------------------------------
\* The pieces of s between occurrences of the character sep: piece j lies
\* between the (j-1)-th and the j-th occurrence (the ends of s included).
Split(s, sep) ==
    Let({0, Len(s) + 1} \cup {i \in 1..Len(s) : s[i] = sep}, LAMBDA at :
        [j \in 1..(Cardinality(at) - 1) |->
            SubSeq(s, (CHOOSE p \in at : Cardinality({q \in at : q < p}) = j - 1) + 1,
                      (CHOOSE p \in at : Cardinality({q \in at : q < p}) = j) - 1)])

\* Path::file_name: the last component when it is a normal one (`.`
\* components and empty ones are not components; a final `..` has no name).
FileName(path) ==
    Let(Split(path, SLASH), LAMBDA segs :
        Let({i \in 1..Len(segs) : segs[i] # <<>> /\ segs[i] # <<DOT>>}, LAMBDA idx :
            IF idx = {} THEN <<>>
            ELSE Let(segs[CHOOSE i \in idx : \A j \in idx : j <= i], LAMBDA last :
                     IF last = <<DOT, DOT>> THEN <<>> ELSE last)))

\* Path::extension: what follows the last `.` of the file name, when that
\* `.` is not the first character of the name; <<>> stands for "no extension"
\* (an empty extension selects the same content type).
Extension(path) ==
    Let(FileName(path), LAMBDA name :
        Let({i \in 1..Len(name) : name[i] = DOT}, LAMBDA dots :
            IF dots = {} THEN <<>>
            ELSE Let(CHOOSE i \in dots : \A j \in dots : j <= i, LAMBDA k :
                     IF k = 1 THEN <<>> ELSE SubSeq(name, k + 1, Len(name)))))

\* fn map_content_type(path: &Path) -> &'static str
map_content_type(path) ==
    Let(Extension(path), LAMBDA ext :
        IF ext = <<104, 116, 109, 108>> THEN "text/html"
        ELSE IF ext = <<99, 115, 115>> THEN "text/css"
        ELSE IF ext = <<106, 115>> THEN "text/javascript"
        ELSE IF ext = <<119, 111, 102, 102, 50>> THEN "font/woff2"
        ELSE IF ext = <<112, 110, 103>> THEN "image/png"
        ELSE "text/plain")

\* ------------------------------------------------------------------------
\* picky_open
\* ------------------------------------------------------------------------
\* st_mode file type bits, as read by Metadata::is_file / is_dir.
S_IFMT == \o170000
S_IFREG == \o100000
S_IFDIR == \o040000
S_IFCHR == \o020000

\* Permission bits of the objects the file system may hold:
\* 0644 0755 0745 0444 pass the test of picky_open; 0640 0604 0244 0000 are
\* not readable by all; 0645 0455 are world-executable, not user-executable.
Perms == {\o644, \o755, \o745, \o444, \o640, \o604, \o244, \o000, \o645, \o455}
Modes == {t + p : t \in {S_IFREG, S_IFDIR, S_IFCHR}, p \in Perms}

\* SystemTime: whole seconds and the nanoseconds within the second.
Times == {[secs |-> 1, nanos |-> 0], [secs |-> 1, nanos |-> 5], [secs |-> 2, nanos |-> 0]}
TimeGe(a, b) == a.secs > b.secs \/ (a.secs = b.secs /\ a.nanos >= b.nanos)
NoTime == [secs |-> 0, nanos |-> 0]

Lens == {7, 11}

\* What the operating system answers to File::open(path) followed by
\* file.metadata(): the open fails, or the open succeeds and the metadata
\* call fails, or both succeed and the metadata is that of the opened object.
OpenOutcomes ==
    {[open |-> FALSE, meta |-> FALSE, mode |-> 0, len |-> 0, mtime |-> NoTime]}
    \cup {[open |-> TRUE, meta |-> FALSE, mode |-> 0, len |-> 0, mtime |-> NoTime]}
    \cup [open : {TRUE}, meta : {TRUE}, mode : Modes, len : Lens, mtime : Times]

\* The answers possible for a given path: a path that ends in `/` names a
\* directory or the open fails, whatever else has that name.
OpenOutcomesAt(path) ==
    IF path # <<>> /\ path[Len(path)] = SLASH
    THEN {o \in OpenOutcomes : (o.open /\ o.meta) => BitAnd(o.mode, S_IFMT) = S_IFDIR}
    ELSE OpenOutcomes

\* Result<FileOrDir, io::Error>
NoFile == <<>>
ResErr(e) ==
    [tag |-> "Err", err |-> e, file |-> NoFile, content_type |-> "", len |-> 0,
     modified |-> NoTime]
ResDir ==
    [tag |-> "Dir", err |-> "", file |-> NoFile, content_type |-> "", len |-> 0,
     modified |-> NoTime]
ResFile(file, content_type, len, modified) ==
    [tag |-> "File", err |-> "", file |-> file, content_type |-> content_type,
     len |-> len, modified |-> modified]

\* A test that forgets the world-executable clause.
ModeNotOkReadableOnly(mode) ==
    BitAnd(mode, \o444) # \o444

\* The test of picky_open on the mode: TRUE when the mode is not OK.
ModeNotOk(mode) ==
    BitAnd(mode, \o444) # \o444 \/ BitAnd(mode, \o101) = \o001

\* async fn picky_open(log, path), given what the operating system answers.
\* The handle of an opened file is identified by the path it was opened at.
picky_open(path, o) ==
    IF ~o.open THEN ResErr("open")
    ELSE IF ~o.meta THEN ResErr("meta")
    ELSE IF ModeNotOk(o.mode) THEN ResErr("perms")
    ELSE IF BitAnd(o.mode, S_IFMT) = S_IFREG
    THEN ResFile(path, map_content_type(path), o.len, o.mtime)
    ELSE IF BitAnd(o.mode, S_IFMT) = S_IFDIR THEN ResDir
    ELSE ResErr("type")

\* ------------------------------------------------------------------------
\* serve_files: Accept-Encoding scan and response
\* ------------------------------------------------------------------------
\* HeaderValue::to_str succeeds on visible ASCII and tab only.
ToStrOk(v) == \A i \in 1..Len(v) : v[i] = 9 \/ (v[i] >= 32 /\ v[i] <= 126)

\* char::is_whitespace, on the characters a header value can hold.
IsWhitespace(c) == c \in {9, 10, 11, 12, 13, 32}

\* str::trim: what lies between the first and the last character that is
\* not whitespace.
Trim(s) ==
    LET keep == {i \in 1..Len(s) : ~IsWhitespace(s[i])}
    IN  IF keep = {} THEN <<>>
        ELSE SubSeq(s, CHOOSE i \in keep : \A j \in keep : i <= j,
                       CHOOSE i \in keep : \A j \in keep : j <= i)

\* A dispatch that sends every method down the GET path.
IsAnyMethod(method) == TRUE

\* The patterns (&Method::GET, path) | (&Method::HEAD, path) of serve_files.
IsGetOrHead(method) == method \in {"GET", "HEAD"}

\* A scan that takes an item that merely contains `gzip`.
AcceptGzipAnywhere(values) ==
    \E k \in 1..Len(values) :
        /\ ToStrOk(values[k])
        /\ \E i \in 1..(Len(values[k]) - 3) : SubSeq(values[k], i, i + 3) = Gzip

\* The scan of the Accept-Encoding header values at the top of serve_files.
AcceptGzip(values) ==
    \E k \in 1..Len(values) :
        /\ ToStrOk(values[k])
        /\ LET items == Split(values[k], 44)
           IN  \E i \in 1..Len(items) : Trim(items[i]) = Gzip

\* httpdate::fmt_http_date: an IMF-fixdate names a whole second.
fmt_http_date(t) == t.secs

\* An absent header or body is <<>>, a present one <<value>>.
NoHeaders ==
    [content_length |-> <<>>, content_type |-> <<>>, last_modified |-> <<>>,
     content_encoding |-> <<>>]

\* Response::new(Body::empty())
NewResponse == [status |-> 200, headers |-> NoHeaders, body |-> <<>>]

\* A handler that answers 403 when the permission test failed.
RespondForbidden(method, r, enc) ==
    IF r.tag = "File"
    THEN [status |-> 200,
          headers |-> [content_length |-> <<r.len>>,
                       content_type |-> <<r.content_type>>,
                       last_modified |-> <<fmt_http_date(r.modified)>>,
                       content_encoding |-> enc],
          body |-> IF method = "GET" THEN <<r.file>> ELSE <<>>]
    ELSE IF r.tag = "Err" /\ r.err = "perms" THEN [NewResponse EXCEPT !.status = 403]
    ELSE [NewResponse EXCEPT !.status = 404]

\* A handler that answers 500 when the directory has no servable index.
RespondServerError(method, r, enc) ==
    IF r.tag = "File"
    THEN [status |-> 200,
          headers |-> [content_length |-> <<r.len>>,
                       content_type |-> <<r.content_type>>,
                       last_modified |-> <<fmt_http_date(r.modified)>>,
                       content_encoding |-> enc],
          body |-> IF method = "GET" THEN <<r.file>> ELSE <<>>]
    ELSE IF r.tag = "Dir" THEN [NewResponse EXCEPT !.status = 500]
    ELSE [NewResponse EXCEPT !.status = 404]

\* A handler that leaves Content-Length out of the answer to a HEAD.
RespondHeadNoLength(method, r, enc) ==
    IF r.tag = "File"
    THEN [status |-> 200,
          headers |-> [content_length |-> IF method = "GET" THEN <<r.len>> ELSE <<>>,
                       content_type |-> <<r.content_type>>,
                       last_modified |-> <<fmt_http_date(r.modified)>>,
                       content_encoding |-> enc],
          body |-> IF method = "GET" THEN <<r.file>> ELSE <<>>]
    ELSE [NewResponse EXCEPT !.status = 404]

\* The match on open_result at the end of serve_files.
\* r: the Result<FileOrDir>, enc: <<>> or <<"gzip">>.
Respond(method, r, enc) ==
    IF r.tag = "File"
    THEN [status |-> 200,
          headers |-> [content_length |-> <<r.len>>,
                       content_type |-> <<r.content_type>>,
                       last_modified |-> <<fmt_http_date(r.modified)>>,
                       content_encoding |-> enc],
          body |-> IF method = "GET" THEN <<r.file>> ELSE <<>>]
    ELSE [NewResponse EXCEPT !.status = 404]

\* ------------------------------------------------------------------------
\* Requests
\* ------------------------------------------------------------------------
Methods == {"GET", "HEAD", "POST"}

\* Request paths: "/", "/style.css", "/a", "/..", "/%2e%2e/a.png", the
\* empty path, "/../../etc/passwd" and "/.a%00/"
RequestPaths ==
    { <<>>,
      <<47, 46, 97, 37, 48, 48, 47>>,
      <<47, 46, 46, 47, 46, 46, 47, 101, 116, 99, 47, 112, 97, 115, 115, 119, 100>>,
      <<47>>,
      <<47, 115, 116, 121, 108, 101, 46, 99, 115, 115>>,
      <<47, 97>>,
      <<47, 46, 46>>,
      <<47, 37, 50, 101, 37, 50, 101, 47, 97, 46, 112, 110, 103>> }

\* Accept-Encoding values: "gzip", "identity", "deflate, gzip", "gzip;q=1",
\* "xgzip", and "gzip" after a byte that is not ASCII.
EncodingValues ==
    { Gzip,
      <<105, 100, 101, 110, 116, 105, 116, 121>>,
      <<100, 101, 102, 108, 97, 116, 101, 44, 32>> \o Gzip,
      Gzip \o <<59, 113, 61, 49>>,
      <<120>> \o Gzip,
      <<200, 44>> \o Gzip }

\* The Accept-Encoding headers of a request: none, one or two.
EncodingHeaders ==
    {<<>>} \cup {<<v>> : v \in EncodingValues}
           \cup {<<v, w>> : v \in {<<105, 100, 101, 110, 116, 105, 116, 121>>},
                            w \in EncodingValues}

Requests == [method : Methods, path : RequestPaths, accept_encoding : EncodingHeaders]

NoRequest == [method |-> "", path |-> <<>>, accept_encoding |-> <<>>]

\* ------------------------------------------------------------------------
\* State
\* ------------------------------------------------------------------------
VARIABLES
    \* sanitize_path, one Sanitizer::next call at a time
    input,       \* the argument of sanitize_path
    chars,       \* what path.chars() has not yielded yet
    pstate,      \* PercentDecoder.state
    sstate,      \* Sanitizer.state
    out,         \* the String being collected
    collected,   \* TRUE once next() returned None and the String is returned
    \* serve_files
    req,         \* the request
    pc,          \* where serve_files stands: the await it is suspended at
    accept_gzip, \* the local accept_gzip
    sanitized,   \* the local String sanitized (the PathBuffer)
    base,        \* the File found by picky_open_with_redirect, kept during the .gz probe
    response,    \* the response under construction / returned
    returned,    \* "" while running, then "Ok" or "Err": the Result of serve_files
    opens,       \* the paths passed to picky_open so far, with the result of each
    last_mode,   \* the local mode of the latest picky_open (None: no metadata read)
    body_size,   \* the size now of the file the response body streams from (None: no stream)
    body_written,\* the bytes the body stream yielded once it ended (None: not ended)
    first,       \* <<>>, or the response and opens of the request served before this one
    fs,          \* <<>>, or what each path answers when the filesystem is held fixed
    \* start
    args,        \* the parsed Args
    spc,         \* where start stands
    trace,       \* the start-up operations performed so far, in order
    accepts,     \* number of results taken from listener.incoming()
    conns,       \* the task spawned for each accepted connection
    \* picky_open, one await at a time
    ppath,       \* the argument path
    objects,     \* the metadata of each object of the filesystem
    named,       \* the object the path names now (None: no such name)
    handle,      \* the object the local file is a handle of (None: not opened)
    ppc,         \* where picky_open stands
    presult,     \* what picky_open returned
    \* load_key_and_cert
    key_file,    \* what the key file holds
    cert_file,   \* what the certificate file holds
    lpc,         \* where load_key_and_cert stands
    loaded       \* what load_key_and_cert returned

nvars == <<input, chars, pstate, sstate, out, collected>>
svars ==
    <<req, pc, accept_gzip, sanitized, base, response, returned, opens, last_mode,
      body_size, body_written, first, fs>>
tvars == <<args, spc, trace, accepts, conns>>
ovars == <<ppath, objects, named, handle, ppc, presult>>
lvars == <<key_file, cert_file, lpc, loaded>>
xvars == <<ovars, lvars>>
vars == <<nvars, svars, tvars, xvars>>

\* The parts of the state a specification does not use stay at these values.
NIdle ==
    /\ input = <<>> /\ chars = <<>> /\ pstate = PNormal /\ sstate = "EmitDot"
    /\ out = <<>> /\ collected = FALSE
SIdle ==
    /\ req = NoRequest /\ pc = "idle" /\ accept_gzip = FALSE /\ sanitized = <<>>
    /\ base = ResDir /\ response = NewResponse /\ returned = "" /\ opens = <<>>
    /\ last_mode = None /\ body_size = None /\ body_written = None /\ first = <<>>
    /\ fs = <<>>
NoArgs == [should_chroot |-> FALSE, gid |-> None, uid |-> None]
TIdle ==
    /\ args = NoArgs /\ spc = "idle" /\ trace = <<>> /\ accepts = 0 /\ conns = <<>>

OIdle ==
    /\ ppath = <<>> /\ objects = <<>> /\ named = None /\ handle = None
    /\ ppc = "idle" /\ presult = ResDir
LIdle ==
    /\ key_file = <<>> /\ cert_file = <<>> /\ lpc = "idle" /\ loaded = <<>>
XIdle == OIdle /\ LIdle

\* ------------------------------------------------------------------------
\* The normalizer as a state machine: one step per Sanitizer::next call made
\* by collect() in sanitize_path.
\* ------------------------------------------------------------------------
NInit ==
    /\ input \in Inputs
    /\ chars = input
    /\ pstate = PNormal
    /\ sstate = "EmitDot"
    /\ out = <<>>
    /\ collected = FALSE
    /\ SIdle /\ TIdle /\ XIdle

\* next() yields Some(c): push c.
CollectSome ==
    /\ ~collected
    /\ LET r == SanitizerNext(sstate, pstate, chars) IN
       /\ r.item # None
       /\ out' = Append(out, r.item)
       /\ sstate' = r.state
       /\ pstate' = r.pstate
       /\ chars' = r.rest
    /\ UNCHANGED <<input, collected, svars, tvars, xvars>>

\* next() yields None: the String is complete.
CollectNone ==
    /\ ~collected
    /\ LET r == SanitizerNext(sstate, pstate, chars) IN
       /\ r.item = None
       /\ sstate' = r.state
       /\ pstate' = r.pstate
       /\ chars' = r.rest
    /\ collected' = TRUE
    /\ UNCHANGED <<input, out, svars, tvars, xvars>>

NNext == CollectSome \/ CollectNone

SpecNormalize == NInit /\ [][NNext]_vars

\* ------------------------------------------------------------------------
\* serve_files as a state machine: one step per await on picky_open.
\* ------------------------------------------------------------------------
SInit ==
    /\ req \in Requests
    /\ pc = "start"
    /\ accept_gzip = FALSE
    /\ sanitized = <<>>
    /\ base = ResDir
    /\ response = NewResponse
    /\ returned = ""
    /\ opens = <<>>
    /\ last_mode = None
    /\ body_size = None
    /\ body_written = None
    /\ first = <<>>
    /\ fs = <<>>
    /\ NIdle /\ TIdle /\ XIdle

\* What the filesystem answers for a path: anything it could hold there,
\* or, when the filesystem is held fixed, what it holds there.
Answers(path) ==
    IF fs # <<>> /\ path \in DOMAIN fs THEN {fs[path]} ELSE OpenOutcomesAt(path)

\* A picky_open call has completed: the path it was given, the mode it read
\* and what it returned.
Opened(path, o, r) ==
    /\ opens' = Append(opens, [path |-> path, tag |-> r.tag, err |-> r.err, res |-> r])
    /\ last_mode' = IF o.open /\ o.meta THEN o.mode ELSE None

\* A selector that takes any servable .gz, however old.
GzipSelectStale(orig, r) ==
    IF r.tag = "File"
    THEN [result |-> ResFile(r.file, orig.content_type, r.len, orig.modified),
          enc |-> <<"gzip">>]
    ELSE [result |-> orig, enc |-> <<>>]

\* A selector that returns the .gz file as picky_open described it.
GzipSelectOwnMeta(orig, r) ==
    IF r.tag = "File" /\ TimeGe(r.modified, orig.modified)
    THEN [result |-> r, enc |-> <<"gzip">>]
    ELSE [result |-> orig, enc |-> <<>>]

\* The match on the .gz picky_open in picky_open_with_redirect_and_gzip.
\* orig: the File found by picky_open_with_redirect, r: the result for the
\* .gz path.  The pair returned: the FileOrDir and the Option encoding.
GzipSelect(orig, r) ==
    IF r.tag = "File" /\ TimeGe(r.modified, orig.modified)
    THEN [result |-> ResFile(r.file, orig.content_type, r.len, orig.modified),
          enc |-> <<"gzip">>]
    ELSE [result |-> orig, enc |-> <<>>]

\* The end of serve_files: the match on open_result, then Ok(response).
Finish(r, enc) ==
    /\ \E resp \in {Respond(req.method, r, enc)} :
        /\ response' = resp
        /\ body_size' = IF resp.body # <<>> THEN r.len ELSE None
    /\ returned' = "Ok"
    /\ pc' = "done"

\* What follows a File result of picky_open_with_redirect: the .gz probe when
\* gzip is acceptable (path.push_str(".gz"), then the await), the response
\* otherwise.
AfterRedirectFile(r, path) ==
    IF accept_gzip
    THEN /\ base' = r
         /\ sanitized' = path \o DotGz
         /\ pc' = "gzip"
         /\ UNCHANGED <<response, returned, body_size>>
    ELSE /\ Finish(r, <<>>)
         /\ sanitized' = path
         /\ UNCHANGED base

\* serve_files up to the first await: header scan, method dispatch,
\* sanitize_path.  Any method other than GET and HEAD is answered at once.
ServeBegin ==
    /\ pc = "start"
    /\ accept_gzip' = AcceptGzip(req.accept_encoding)
    /\ IF IsGetOrHead(req.method)
       THEN /\ sanitized' = sanitize_path(req.path)
            /\ pc' = "open"
            /\ UNCHANGED <<response, returned>>
       ELSE /\ response' = [NewResponse EXCEPT !.status = 404]
            /\ returned' = "Ok"
            /\ pc' = "done"
            /\ UNCHANGED sanitized
    /\ UNCHANGED <<req, base, opens, last_mode, body_size, body_written, first,
                   fs, nvars, tvars, xvars>>

\* picky_open_with_redirect: the first picky_open completes.
OpenPath ==
    /\ pc = "open"
    /\ \E o \in Answers(sanitized) : \E r \in {picky_open(sanitized, o)} :
        /\ Opened(sanitized, o, r)
        /\ IF r.tag = "Err"
           THEN Finish(r, <<>>) /\ UNCHANGED <<sanitized, base>>
           ELSE IF r.tag = "Dir"
           THEN /\ sanitized' = sanitized \o IndexHtml
                /\ pc' = "index"
                /\ UNCHANGED <<base, response, returned, body_size>>
           ELSE AfterRedirectFile(r, sanitized)
    /\ UNCHANGED <<req, accept_gzip, body_written, first, fs, nvars, tvars, xvars>>

\* A redirect that follows a second directory as well.
OpenIndexRedirectsAgain ==
    /\ pc = "index"
    /\ \E o \in Answers(sanitized) : \E r \in {picky_open(sanitized, o)} :
        /\ Opened(sanitized, o, r)
        /\ IF r.tag = "File"
           THEN AfterRedirectFile(r, sanitized)
           ELSE IF r.tag = "Dir" /\ Len(opens) < 2
           THEN /\ sanitized' = sanitized \o IndexHtml
                /\ pc' = "index"
                /\ UNCHANGED <<base, response, returned, body_size>>
           ELSE Finish(r, <<>>) /\ UNCHANGED <<sanitized, base>>
    /\ UNCHANGED <<req, accept_gzip, body_written, first, fs, nvars, tvars, xvars>>

\* picky_open_with_redirect: the picky_open of the index.html completes.
OpenIndex ==
    /\ pc = "index"
    /\ \E o \in Answers(sanitized) : \E r \in {picky_open(sanitized, o)} :
        /\ Opened(sanitized, o, r)
        /\ IF r.tag = "File"
           THEN AfterRedirectFile(r, sanitized)
           ELSE Finish(r, <<>>) /\ UNCHANGED <<sanitized, base>>
    /\ UNCHANGED <<req, accept_gzip, body_written, first, fs, nvars, tvars, xvars>>

\* picky_open_with_redirect_and_gzip: the picky_open of the .gz completes.
OpenGz ==
    /\ pc = "gzip"
    /\ \E o \in Answers(sanitized) : \E r \in {picky_open(sanitized, o)} :
        /\ Opened(sanitized, o, r)
        /\ \E s \in {GzipSelect(base, r)} : Finish(s.result, s.enc)
    /\ UNCHANGED <<req, accept_gzip, sanitized, base, body_written, first, fs, nvars, tvars, xvars>>

\* The sizes a file can be changed to while its body is streamed.
Sizes == Lens \cup {0}

\* Another process changes the size of the file behind the body stream,
\* after the metadata call of picky_open and before the stream has ended.
Resize ==
    /\ pc = "done" /\ body_size # None /\ body_written = None
    /\ \E n \in Sizes \ {body_size} : body_size' = n
    /\ UNCHANGED <<req, pc, accept_gzip, sanitized, base, response, returned, opens,
                   last_mode, body_written, first, fs, nvars, tvars, xvars>>

\* The body stream is polled to its end: Body::wrap_stream over the framed
\* file yields what the file holds, up to its end.
StreamBody ==
    /\ pc = "done" /\ body_size # None /\ body_written = None
    /\ body_written' = body_size
    /\ UNCHANGED <<req, pc, accept_gzip, sanitized, base, response, returned, opens,
                   last_mode, body_size, first, fs, nvars, tvars, xvars>>

SNext == ServeBegin \/ OpenPath \/ OpenIndex \/ OpenGz \/ Resize \/ StreamBody

SpecServe == SInit /\ [][SNext]_vars

\* ------------------------------------------------------------------------
\* Two requests, one after the other, on a filesystem no other process
\* changes: a GET, then a HEAD with the same path and headers.
\* ------------------------------------------------------------------------
\* Paths and headers of the pairs: "/", "/style.css", "/.."; no
\* Accept-Encoding, "gzip", "identity" then "deflate, gzip".
PairPaths == {<<47>>, <<47, 115, 116, 121, 108, 101, 46, 99, 115, 115>>, <<47, 46, 46>>}
PairHeaders == {<<>>, <<Gzip>>, <<<<105, 100, 101, 110, 116, 105, 116, 121>>, <<100, 101, 102, 108, 97, 116, 101, 44, 32>> \o Gzip>>}

\* The objects the fixed filesystem holds: nothing, a directory, a file of
\* 11 bytes, a newer file of 7 bytes, an older one, a file only its owner
\* and group can read.
PairOutcomes ==
    { [open |-> FALSE, meta |-> FALSE, mode |-> 0, len |-> 0, mtime |-> NoTime],
      [open |-> TRUE, meta |-> TRUE, mode |-> S_IFDIR + \o755, len |-> 11,
       mtime |-> [secs |-> 1, nanos |-> 0]],
      [open |-> TRUE, meta |-> TRUE, mode |-> S_IFREG + \o644, len |-> 11,
       mtime |-> [secs |-> 1, nanos |-> 5]],
      [open |-> TRUE, meta |-> TRUE, mode |-> S_IFREG + \o644, len |-> 7,
       mtime |-> [secs |-> 2, nanos |-> 0]],
      [open |-> TRUE, meta |-> TRUE, mode |-> S_IFREG + \o444, len |-> 7,
       mtime |-> [secs |-> 1, nanos |-> 0]],
      [open |-> TRUE, meta |-> TRUE, mode |-> S_IFREG + \o640, len |-> 11,
       mtime |-> [secs |-> 2, nanos |-> 0]] }

\* The paths serve_files can open for a sanitized path.
PathsFor(p) == {p, p \o IndexHtml, p \o DotGz, p \o IndexHtml \o DotGz}

PInit ==
    /\ req \in [method : {"GET"}, path : PairPaths, accept_encoding : PairHeaders]
    /\ fs \in {f \in [PathsFor(sanitize_path(req.path)) -> PairOutcomes] :
                  \A p \in DOMAIN f : f[p] \in OpenOutcomesAt(p)}
    /\ pc = "start"
    /\ accept_gzip = FALSE
    /\ sanitized = <<>>
    /\ base = ResDir
    /\ response = NewResponse
    /\ returned = ""
    /\ opens = <<>>
    /\ last_mode = None
    /\ body_size = None
    /\ body_written = None
    /\ first = <<>>
    /\ NIdle /\ TIdle /\ XIdle

\* The service function is called for the next request of the connection.
HeadRequest ==
    /\ pc = "done" /\ first = <<>>
    /\ body_size # None => body_written # None
    /\ first' = <<[response |-> response, opens |-> opens]>>
    /\ req' = [req EXCEPT !.method = "HEAD"]
    /\ pc' = "start"
    /\ accept_gzip' = FALSE
    /\ sanitized' = <<>>
    /\ base' = ResDir
    /\ response' = NewResponse
    /\ returned' = ""
    /\ opens' = <<>>
    /\ last_mode' = None
    /\ body_size' = None
    /\ body_written' = None
    /\ UNCHANGED <<fs, nvars, tvars, xvars>>

PNext == ServeBegin \/ OpenPath \/ OpenIndex \/ OpenGz \/ StreamBody \/ HeadRequest

SpecGetThenHead == PInit /\ [][PNext]_vars

\* ------------------------------------------------------------------------
\* picky_open as a state machine: File::open, then file.metadata(), while
\* another process may make the path name another object.
\* ------------------------------------------------------------------------
ObjIds == {1, 2}

\* Metadata an object can have: regular files that pass, a regular file the
\* world cannot read, one that is world- but not user-executable, a
\* directory, a character device.
ObjMetas ==
    { [mode |-> S_IFREG + \o644, len |-> 7, mtime |-> [secs |-> 1, nanos |-> 0]],
      [mode |-> S_IFREG + \o755, len |-> 11, mtime |-> [secs |-> 2, nanos |-> 0]],
      [mode |-> S_IFREG + \o640, len |-> 11, mtime |-> [secs |-> 1, nanos |-> 5]],
      [mode |-> S_IFREG + \o645, len |-> 7, mtime |-> [secs |-> 2, nanos |-> 0]],
      [mode |-> S_IFDIR + \o755, len |-> 11, mtime |-> [secs |-> 1, nanos |-> 0]],
      [mode |-> S_IFCHR + \o644, len |-> 7, mtime |-> [secs |-> 1, nanos |-> 5]] }

\* Paths picky_open is called with: "./a", "./style.css"
PickyPaths == {<<46, 47, 97>>, <<46, 47, 115, 116, 121, 108, 101, 46, 99, 115, 115>>}

OInit ==
    /\ ppath \in PickyPaths
    /\ objects \in [ObjIds -> ObjMetas]
    /\ named \in {None} \cup ObjIds
    /\ handle = None
    /\ ppc = "open"
    /\ presult = ResDir
    /\ LIdle /\ NIdle /\ SIdle /\ TIdle

\* A picky_open that asks for the metadata of whatever the path names.
StatTargetPath(h, n) == n

\* The object file.metadata() describes: the one the handle is of, whatever
\* the path names by now.
StatTarget(h, n) == h

\* What the operating system answers once the metadata call is made on
\* object t (None: there is no such object and the call fails).
OutcomeOf(t, ok) ==
    IF t = None \/ ~ok
    THEN [open |-> TRUE, meta |-> FALSE, mode |-> 0, len |-> 0, mtime |-> NoTime]
    ELSE [open |-> TRUE, meta |-> TRUE, mode |-> objects[t].mode,
          len |-> objects[t].len, mtime |-> objects[t].mtime]

\* fs::File::open(path).await: fails and picky_open returns the error, or
\* yields a handle of the object the path names at this moment.
FileOpen ==
    /\ ppc = "open"
    /\ \/ /\ named # None
          /\ handle' = named
          /\ ppc' = "metadata"
          /\ UNCHANGED presult
       \/ /\ presult' = picky_open(ppath, [open |-> FALSE, meta |-> FALSE, mode |-> 0,
                                            len |-> 0, mtime |-> NoTime])
          /\ ppc' = "done"
          /\ UNCHANGED handle
    /\ UNCHANGED <<ppath, objects, named, lvars, nvars, svars, tvars>>

\* file.metadata().await and the rest of picky_open, which awaits nothing.
FileMetadata ==
    /\ ppc = "metadata"
    /\ \E ok \in BOOLEAN :
        presult' = picky_open(ppath, OutcomeOf(StatTarget(handle, named), ok))
    /\ ppc' = "done"
    /\ UNCHANGED <<ppath, objects, named, handle, lvars, nvars, svars, tvars>>

\* Another process renames, replaces or unlinks: the path names another
\* object, or none, from now on.
Relink ==
    /\ ppc \in {"open", "metadata"}
    /\ \E n \in ({None} \cup ObjIds) \ {named} : named' = n
    /\ UNCHANGED <<ppath, objects, handle, ppc, presult, lvars, nvars, svars, tvars>>

ONext == FileOpen \/ FileMetadata \/ Relink

SpecPickyOpen == OInit /\ [][ONext]_vars

\* ------------------------------------------------------------------------
\* start: get_args, load_key_and_cert, bind, drop_privs, TLS configuration,
\* accept loop and the task of each connection.
\* ------------------------------------------------------------------------
\* Most results taken from the listener, and most requests per connection.
MaxAccepts == 3
MaxRequests == 2

\* Numeric ids a --uid / --gid option can carry.
Ids == {0, 1000}

ArgsSet == [should_chroot : BOOLEAN, gid : {None} \cup Ids, uid : {None} \cup Ids]

\* One operation of start-up: what was called, the id and group list passed
\* (None and <<>> when the call takes none) and whether it succeeded.
Op(call, id, groups, ok) == [call |-> call, id |-> id, groups |-> groups, ok |-> ok]

\* The statement of drop_privs reached after set_current_dir, chroot, the
\* gid block and setuid: the `if` conditions of drop_privs.
AfterSetuid == "tls"
AfterGid(a) == IF a.uid # None THEN "setuid" ELSE AfterSetuid
\* A drop_privs that switches user before it switches group.
AfterChrootUidFirst(a) ==
    IF a.uid # None THEN "setuid" ELSE IF a.gid # None THEN "setgid" ELSE AfterSetuid
AfterChroot(a) == IF a.gid # None THEN "setgid" ELSE AfterGid(a)
AfterChdir(a) == IF a.should_chroot THEN "chroot" ELSE AfterChroot(a)

\* A start that forgets to call drop_privs.
AfterBindNoDrop == "tls"

\* What follows the bind in start: drop_privs, which begins with the chdir.
AfterBind == "chdir"

TInit ==
    /\ args = NoArgs
    /\ spc = "get_args"
    /\ trace = <<>>
    /\ accepts = 0
    /\ conns = <<>>
    /\ NIdle /\ SIdle /\ XIdle

\* One fallible step of start: on success go to `next`, on failure the `?`
\* returns the error from start and main panics.
Step(at, op, next) ==
    /\ spc = at
    /\ \E ok \in BOOLEAN :
        /\ trace' = Append(trace, [op EXCEPT !.ok = ok])
        /\ spc' = IF ok THEN next ELSE "failed"
    /\ UNCHANGED <<args, accepts, conns, nvars, svars, xvars>>

\* get_args: the parsed arguments, or clap exits the process.
GetArgs ==
    /\ spc = "get_args"
    /\ \/ /\ args' \in ArgsSet
          /\ spc' = "load"
       \/ /\ spc' = "exited"
          /\ UNCHANGED args
    /\ UNCHANGED <<trace, accepts, conns, nvars, svars, xvars>>

LoadKeyAndCert == Step("load", Op("load_key_and_cert", None, <<>>, TRUE), "bind")

Bind == Step("bind", Op("bind", None, <<>>, TRUE), AfterBind)

\* drop_privs, one system call at a time.
Chdir == Step("chdir", Op("chdir", None, <<>>, TRUE), AfterChdir(args))

Chroot == Step("chroot", Op("chroot", None, <<>>, TRUE), AfterChroot(args))

Setgid == Step("setgid", Op("setgid", args.gid, <<>>, TRUE), "setgroups")

Setgroups == Step("setgroups", Op("setgroups", None, <<args.gid>>, TRUE), AfterGid(args))

Setuid == Step("setuid", Op("setuid", args.uid, <<>>, TRUE), AfterSetuid)

\* config.set_single_cert(cert_chain, key)?, then the acceptor is built.
TlsConfig == Step("tls", Op("set_single_cert", None, <<>>, TRUE), "accept")

\* The accept loop takes Some(Ok(socket)) and spawns the connection's task.
AcceptOk ==
    /\ spc = "accept"
    /\ accepts < MaxAccepts
    /\ accepts' = accepts + 1
    /\ conns' = Append(conns, [state |-> "handshake", requests |-> 0, tls |-> "pending"])
    /\ UNCHANGED <<args, spc, trace, nvars, svars, xvars>>

\* The accept loop takes Some(Err(_)): "error accepting", and loops.
AcceptErr ==
    /\ spc = "accept"
    /\ accepts < MaxAccepts
    /\ accepts' = accepts + 1
    /\ UNCHANGED <<args, spc, trace, conns, nvars, svars, xvars>>

\* incoming.next() yields None: the loop ends and start returns Ok(()).
AcceptEnd ==
    /\ spc = "accept"
    /\ spc' = "returned"
    /\ UNCHANGED <<args, trace, accepts, conns, nvars, svars, xvars>>

\* A task that serves the connection whatever the handshake gave.
HandshakeFailureServes(i) ==
    /\ conns[i].state = "handshake"
    /\ \E ok \in BOOLEAN :
        conns' = [conns EXCEPT ![i].state = "serving",
                               ![i].tls = IF ok THEN "ok" ELSE "failed"]
    /\ UNCHANGED <<args, spc, trace, accepts, nvars, svars, xvars>>

\* A connection's task: tls_acceptor.accept(socket) completes; on Err the
\* task logs a warning and ends.
Handshake(i) ==
    /\ conns[i].state = "handshake"
    /\ \E ok \in BOOLEAN :
        conns' = [conns EXCEPT ![i].state = IF ok THEN "serving" ELSE "closed",
                               ![i].tls = IF ok THEN "ok" ELSE "failed"]
    /\ UNCHANGED <<args, spc, trace, accepts, nvars, svars, xvars>>

\* serve_connection hands one request to serve_files.
ServeRequest(i) ==
    /\ conns[i].state = "serving"
    /\ conns[i].requests < MaxRequests
    /\ conns' = [conns EXCEPT ![i].requests = @ + 1]
    /\ UNCHANGED <<args, spc, trace, accepts, nvars, svars, xvars>>

\* serve_connection completes, with an error (which is logged) or without:
\* the task ends.
ConnectionClosed(i) ==
    /\ conns[i].state = "serving"
    /\ conns' = [conns EXCEPT ![i].state = "closed"]
    /\ UNCHANGED <<args, spc, trace, accepts, nvars, svars, xvars>>

TNext ==
    \/ GetArgs \/ LoadKeyAndCert \/ Bind
    \/ Chdir \/ Chroot \/ Setgid \/ Setgroups \/ Setuid
    \/ TlsConfig
    \/ AcceptOk \/ AcceptErr \/ AcceptEnd
    \/ \E i \in 1..Len(conns) : Handshake(i)
    \/ \E i \in 1..Len(conns) : ServeRequest(i)
    \/ \E i \in 1..Len(conns) : ConnectionClosed(i)

SpecStart == TInit /\ [][TNext]_vars

\* ------------------------------------------------------------------------
\* load_key_and_cert as a state machine: the key, then the certificates.
\* ------------------------------------------------------------------------
\* Most PEM sections in a key file.
MaxSections == 3

\* A PEM section of a key file: a PKCS#8 private key (1, 2: which key), or a
\* section of another kind (0), which pkcs8_private_keys skips.
Sections == {0, 1, 2}

SectionsUpTo(n) == UNION {[1..k -> Sections] : k \in 0..n}

\* A file: whether it can be opened, whether its PEM parses, what it holds.
KeyFiles ==
    {[readable |-> FALSE, wellformed |-> FALSE, items |-> <<>>],
     [readable |-> TRUE, wellformed |-> FALSE, items |-> <<>>]}
    \cup [readable : {TRUE}, wellformed : {TRUE}, items : SectionsUpTo(MaxSections)]

CertFiles ==
    {[readable |-> FALSE, wellformed |-> FALSE, items |-> <<>>],
     [readable |-> TRUE, wellformed |-> FALSE, items |-> <<>>],
     [readable |-> TRUE, wellformed |-> TRUE, items |-> <<>>],
     [readable |-> TRUE, wellformed |-> TRUE, items |-> <<1>>],
     [readable |-> TRUE, wellformed |-> TRUE, items |-> <<1, 2>>]}

\* rustls::internal::pemfile::pkcs8_private_keys: the PKCS#8 keys of the
\* file, in the order of the file.
pkcs8_private_keys(items) == SelectSeq(items, LAMBDA x : x # 0)

\* Vec::pop: the last element, None for an empty vector.
Pop(v) == IF v = <<>> THEN None ELSE v[Len(v)]

\* io::Result<(PrivateKey, Vec<Certificate>)>; "Key": the key is loaded and
\* the certificates are not yet.
LoadResult(tag, err, key, chain) ==
    [tag |-> tag, err |-> err, key |-> key, cert_chain |-> chain]

LInit ==
    /\ key_file \in KeyFiles
    /\ cert_file \in CertFiles
    /\ lpc = "key"
    /\ loaded = <<>>
    /\ OIdle /\ NIdle /\ SIdle /\ TIdle

\* let key = pkcs8_private_keys(File::open(key_path)?)?.pop().ok_or_else()?
LoadKey ==
    /\ lpc = "key"
    /\ \E r \in {IF ~key_file.readable THEN LoadResult("Err", "open", None, <<>>)
                  ELSE IF ~key_file.wellformed
                  THEN LoadResult("Err", "can't load private key (bad file?)", None, <<>>)
                  ELSE IF Pop(pkcs8_private_keys(key_file.items)) = None
                  THEN LoadResult("Err", "no keys found in private key file", None, <<>>)
                  ELSE LoadResult("Key", "", Pop(pkcs8_private_keys(key_file.items)), <<>>)} :
        /\ loaded' = <<r>>
        /\ lpc' = IF r.tag = "Err" THEN "done" ELSE "certs"
    /\ UNCHANGED <<key_file, cert_file, ovars, nvars, svars, tvars>>

\* let cert_chain = certs(File::open(cert_path)?)?; Ok((key, cert_chain))
LoadCertChain ==
    /\ lpc = "certs"
    /\ loaded' = <<IF ~cert_file.readable THEN LoadResult("Err", "open", None, <<>>)
                   ELSE IF ~cert_file.wellformed
                   THEN LoadResult("Err", "can't load certificate", None, <<>>)
                   ELSE LoadResult("Ok", "", loaded[1].key, cert_file.items)>>
    /\ lpc' = "done"
    /\ UNCHANGED <<key_file, cert_file, ovars, nvars, svars, tvars>>

LNext == LoadKey \/ LoadCertChain

SpecLoadKey == LInit /\ [][LNext]_vars

\* ========================================================================
\* Properties of the path normalizer (SpecNormalize)
\* ========================================================================
\* The segments of a path: the substrings delimited by `/`.
Segments(s) == Split(s, SLASH)

IsNavigational(seg) == seg = <<DOT>> \/ seg = <<DOT, DOT>>

\* "./"
DotSlash == <<DOT, SLASH>>

\* C2, as stated: once sanitize_path has returned, no segment of its output
\* equals `.` or `..`.
C2_NoDotSegmentAnywhere ==
    collected => \A i \in 1..Len(Segments(out)) : ~IsNavigational(Segments(out)[i])

\* C2, amended: once sanitize_path has returned, no segment of its output
\* other than the leading `.` of the `./` prefix equals `.` or `..`.
C2_NoDotSegmentAfterPrefix ==
    collected =>
        /\ Len(out) >= 2 /\ SubSeq(out, 1, 2) = DotSlash
        /\ \A i \in 2..Len(Segments(out)) : ~IsNavigational(Segments(out)[i])

\* sanitize_path has returned for an input that has a `..` segment.
C2_Witness ==
    /\ collected
    /\ \E i \in 1..Len(Segments(input)) : Segments(input)[i] = <<DOT, DOT>>

\* C3: once sanitize_path has returned, its output begins with `./`, holds
\* no NUL and holds no two consecutive `/`.
C3_PrefixNoNulNoDoubleSlash ==
    collected =>
        /\ Len(out) >= 2 /\ out[1] = DOT /\ out[2] = SLASH
        /\ \A i \in 1..Len(out) : out[i] # NUL
        /\ \A i \in 1..(Len(out) - 1) : ~(out[i] = SLASH /\ out[i + 1] = SLASH)

\* sanitize_path has returned for an input with a NUL and with a `//` after
\* a segment.
C3_Witness ==
    /\ collected
    /\ \E i \in 1..Len(input) : input[i] = NUL
    /\ \E i \in 2..(Len(input) - 1) :
        input[i - 1] # SLASH /\ input[i] = SLASH /\ input[i + 1] = SLASH

\* The two stages as the specification words them, each on a whole string.
HexDigitsLower == <<48, 49, 50, 51, 52, 53, 54, 55, 56, 57, 97, 98, 99, 100, 101, 102>>
HexDigitsUpper == <<48, 49, 50, 51, 52, 53, 54, 55, 56, 57, 65, 66, 67, 68, 69, 70>>
IsHexDigit(c) == \E v \in 1..16 : HexDigitsLower[v] = c \/ HexDigitsUpper[v] = c
HexValue(c) == (CHOOSE v \in 1..16 : HexDigitsLower[v] = c \/ HexDigitsUpper[v] = c) - 1

\* A `%` followed by two hex digits begins at position i of s.
EscapeAt(s, i) ==
    /\ i >= 1 /\ i + 2 <= Len(s)
    /\ s[i] = PERCENT /\ IsHexDigit(s[i + 1]) /\ IsHexDigit(s[i + 2])

Drop(s, n) == SubSeq(s, n + 1, Len(s))

\* Stage 1: tolerant percent-decoding.  An invalid `%` is emitted followed by
\* the (at most two) characters consumed after it.
RECURSIVE Stage1(_)
Stage1(s) ==
    IF s = <<>> THEN <<>>
    ELSE IF EscapeAt(s, 1)
    THEN <<16 * HexValue(s[2]) + HexValue(s[3])>> \o Stage1(Drop(s, 3))
    ELSE IF s[1] = PERCENT
    THEN LET n == IF Len(s) >= 3 THEN 3 ELSE Len(s)
         IN  SubSeq(s, 1, n) \o Stage1(Drop(s, n))
    ELSE <<s[1]>> \o Stage1(Drop(s, 1))

\* Stage 2: the sanitize rules, from state st ("Slash" or "Normal").
RECURSIVE Stage2(_, _)
Stage2(st, s) ==
    IF s = <<>> THEN <<>>
    ELSE IF s[1] = NUL THEN <<UNDERSCORE>> \o Stage2("Normal", Tail(s))
    ELSE IF s[1] = SLASH
    THEN IF st = "Slash" THEN Stage2("Slash", Tail(s))
         ELSE <<SLASH>> \o Stage2("Slash", Tail(s))
    ELSE IF s[1] = DOT /\ st = "Slash" THEN <<COLON>> \o Stage2("Normal", Tail(s))
    ELSE <<s[1]>> \o Stage2("Normal", Tail(s))

\* C9: sanitize_path returns `./` followed by Stage 2 (from state Slash) of
\* Stage 1 of its input; in particular empty -> `./`, `///` -> `./`,
\* `..` -> `./:.`, `%` -> `./%`, `%4` -> `./%4`, `%4g` -> `./%4g`.
C9_TwoStageComposition ==
    collected =>
        /\ out = DotSlash \o Stage2("Slash", Stage1(input))
        /\ (input = <<>> => out = <<46, 47>>)
        /\ (input = <<47, 47, 47>> => out = <<46, 47>>)
        /\ (input = <<46, 46>> => out = <<46, 47, 58, 46>>)
        /\ (input = <<37>> => out = <<46, 47, 37>>)
        /\ (input = <<37, 52>> => out = <<46, 47, 37, 52>>)
        /\ (input = <<37, 52, 103>> => out = <<46, 47, 37, 52, 103>>)

\* sanitize_path has returned `./%4g` for `%4g`: a `%` followed by a hex
\* digit and a character that is not one.
C9_Witness ==
    collected /\ input = <<37, 52, 103>> /\ out = <<46, 47, 37, 52, 103>>

\* Every `%HH` of s replaced by the character of code point 0xHH.
RECURSIVE SubstituteEscapes(_)
SubstituteEscapes(s) ==
    IF s = <<>> THEN <<>>
    ELSE IF EscapeAt(s, 1)
    THEN <<16 * HexValue(s[2]) + HexValue(s[3])>> \o SubstituteEscapes(Drop(s, 3))
    ELSE <<s[1]>> \o SubstituteEscapes(Drop(s, 1))

\* C10, as stated: for every input, sanitize_path returns `./` followed by
\* Stage 2 of the input with every `%HH` substituted.
C10_SubstituteThenSanitize ==
    collected => out = DotSlash \o Stage2("Slash", SubstituteEscapes(input))

\* No `%HH` begins at one of the two characters that follow a `%` which is
\* not itself followed by two hex digits.
NoEscapeBehindInvalidPercent(s) ==
    \A i \in 1..Len(s) :
        (s[i] = PERCENT /\ ~EscapeAt(s, i)) => ~EscapeAt(s, i + 1) /\ ~EscapeAt(s, i + 2)

\* C10, amended: for every input in which no `%HH` begins at one of the two
\* characters following a `%` that is not itself followed by two hex digits,
\* sanitize_path returns `./` followed by Stage 2 of the input with every
\* `%HH` substituted; in particular `%2f%2e%2e%00` -> `./:._`.
C10_SubstituteThenSanitizeWellFormed ==
    collected =>
        /\ NoEscapeBehindInvalidPercent(input) =>
               out = DotSlash \o Stage2("Slash", SubstituteEscapes(input))
        /\ (input = <<37, 50, 102, 37, 50, 101, 37, 50, 101, 37, 48, 48>> => out = <<46, 47, 58, 46, 95>>)

\* sanitize_path has returned `./:._` for `%2f%2e%2e%00`.
C10_Witness ==
    collected /\ input = <<37, 50, 102, 37, 50, 101, 37, 50, 101, 37, 48, 48>> /\ out = <<46, 47, 58, 46, 95>>

\* C11: the decoder reads the input once, front to back: what is left to
\* read is always a suffix of the input, and when sanitize_path returns
\* everything was read and nothing is pending; a `%` that an escape decoded
\* to is emitted as it is and the characters after the escape are decoded on
\* their own; in particular `%2525` gives `./%25`, not `./%`.
C11_SinglePassDecoding ==
    /\ \E k \in 0..Len(input) : chars = Drop(input, k)
    /\ collected =>
           /\ chars = <<>> /\ pstate = PNormal
           /\ (EscapeAt(input, 1) /\ 16 * HexValue(input[2]) + HexValue(input[3]) = PERCENT) =>
                  out = DotSlash \o <<PERCENT>> \o Stage2("Normal", Stage1(Drop(input, 3)))
           /\ (input = <<37, 50, 53, 50, 53>> => (out = <<46, 47, 37, 50, 53>> /\ out # <<46, 47, 37>>))

\* sanitize_path has returned `./%25` for `%2525`.
C11_Witness ==
    collected /\ input = <<37, 50, 53, 50, 53>> /\ out = <<46, 47, 37, 50, 53>>

\* C12, as stated: an output of sanitize_path is a fixed point of
\* sanitize_path.
C12_OutputIsFixedPoint ==
    collected => sanitize_path(out) = out

\* No `%` of s is followed by two hex digits.
NoEscape(s) == \A i \in 1..Len(s) : ~EscapeAt(s, i)

\* C12, amended: for an output `./`q of sanitize_path that holds no `%HH`,
\* sanitize_path(q) is that output again, and sanitize_path of the output
\* itself is `./:/`q (the `.` of the prefix is rewritten to `:`).
C12_FixedPointAfterPrefix ==
    (collected /\ NoEscape(out)) =>
        /\ sanitize_path(Drop(out, 2)) = out
        /\ sanitize_path(out) = <<46, 47, 58, 47>> \o Drop(out, 2)

\* sanitize_path has returned an output without `%HH` for an input that
\* needed rewriting: a `..` segment after a doubled `/`.
C12_Witness ==
    /\ collected /\ NoEscape(out)
    /\ \E i \in 1..(Len(input) - 3) : SubSeq(input, i, i + 3) = <<47, 47, 46, 46>>

\* ========================================================================
\* Properties of picky_open and serve_files (SpecServe)
\* ========================================================================
\* Bit k of a mode (bit 0 is the least significant).
RECURSIVE Pow2(_)
Pow2(k) == IF k = 0 THEN 1 ELSE 2 * Pow2(k - 1)
ModeBit(mode, k) == (mode \div Pow2(k)) % 2 = 1

\* Readable by user, group and other, and user-executable if world-executable.
ModePasses(mode) ==
    /\ ModeBit(mode, 8) /\ ModeBit(mode, 5) /\ ModeBit(mode, 2)
    /\ (ModeBit(mode, 0) => ModeBit(mode, 6))

LastOpen == opens[Len(opens)]

\* C1: the latest picky_open returned File or Dir only if its metadata call
\* read a mode that passes; whenever the mode read does not pass it returned
\* an error, whatever the type of the object, so that a second picky_open
\* (of the index.html) is only reached through a directory whose mode passes.
C1_SuccessOnlyIfModePasses ==
    opens # <<>> =>
        /\ LastOpen.tag \in {"File", "Dir"} => last_mode # None /\ ModePasses(last_mode)
        /\ (last_mode # None /\ ~ModePasses(last_mode)) => LastOpen.tag = "Err"
        /\ pc = "index" =>
               /\ LastOpen.tag = "Dir"
               /\ last_mode # None /\ ModePasses(last_mode)

\* The path was a directory whose mode is world-executable and not
\* user-executable: picky_open failed and no index.html was opened.
C1_Witness ==
    /\ Len(opens) = 1
    /\ last_mode = S_IFDIR + \o455
    /\ LastOpen.tag = "Err"
    /\ pc = "done"

\* The response of every failure: 404, no resource header, no body.
Bare404 == [status |-> 404, headers |-> NoHeaders, body |-> <<>>]

\* The open pipeline failed: the first picky_open failed, or it found a
\* directory and the picky_open of its index.html did not find a file.
PipelineFailed ==
    /\ opens # <<>>
    /\ \/ opens[1].tag = "Err"
       \/ opens[1].tag = "Dir" /\ Len(opens) >= 2 /\ opens[2].tag # "File"

\* C4: when serve_files has returned for a GET or HEAD whose open pipeline
\* failed, the response is the bare 404, whatever the cause.
C4_FailuresAreBare404 ==
    (pc = "done" /\ req.method \in {"GET", "HEAD"} /\ PipelineFailed) =>
        /\ returned = "Ok"
        /\ response = Bare404

\* A GET was answered after the index.html of a directory failed the
\* permission test.
C4_Witness ==
    /\ pc = "done" /\ req.method = "GET"
    /\ Len(opens) = 2 /\ opens[1].tag = "Dir" /\ opens[2].err = "perms"

\* C5: for a method other than GET and HEAD picky_open is never called, and
\* the response returned is the bare 404.
C5_OtherMethodsBare404NoOpen ==
    (req.method \notin {"GET", "HEAD"}) =>
        /\ opens = <<>>
        /\ pc \in {"start", "done"}
        /\ pc = "done" => (returned = "Ok" /\ response = Bare404)

\* A POST of /style.css that accepts gzip has been answered.
C5_Witness ==
    /\ pc = "done" /\ req.method = "POST"
    /\ req.path = <<47, 115, 116, 121, 108, 101, 46, 99, 115, 115>>
    /\ accept_gzip

\* C6: serve_files never returns an error, and the status of the response it
\* returns is 200 or 404.
C6_StatusIs200Or404 ==
    /\ returned \in {"", "Ok"}
    /\ pc = "done" => (returned = "Ok" /\ response.status \in {200, 404})
    /\ response.status \notin {403, 405, 500}

\* A request was answered after the index.html of a directory turned out to
\* be a directory.
C6_Witness ==
    /\ pc = "done"
    /\ Len(opens) = 2 /\ opens[2].tag = "Dir"

\* The k-th open is of the path of the open before it with `/index.html`
\* appended.
IndexAppendedAt(k) == k >= 2 /\ opens[k].path = opens[k - 1].path \o IndexHtml

\* The number of places of s where t occurs.
Occurrences(s, t) ==
    Cardinality({i \in 1..(Len(s) - Len(t) + 1) : SubSeq(s, i, i + Len(t) - 1) = t})

\* C13: picky_open_with_redirect redirects at most once.  A Dir result of
\* the first open is followed by exactly one open, of that path with
\* `/index.html` appended; nothing else is ever opened with `/index.html`
\* appended to the path before it; a Dir result of the second open ends the
\* request with a bare 404 and no further open; and `/index.html` is in the
\* path at most once.
C13_AtMostOneRedirect ==
    /\ pc = "index" <=> (Len(opens) = 1 /\ opens[1].tag = "Dir")
    /\ pc = "index" => sanitized = opens[1].path \o IndexHtml
    /\ (Len(opens) >= 2 /\ opens[1].tag = "Dir") => IndexAppendedAt(2)
    /\ \A k \in 1..Len(opens) :
           /\ IndexAppendedAt(k) => (k = 2 /\ opens[1].tag = "Dir")
           /\ Occurrences(opens[k].path, IndexHtml) <= 1
           /\ (IndexAppendedAt(k) /\ opens[k].tag = "Dir") =>
                  /\ Len(opens) = k
                  /\ pc = "done" /\ returned = "Ok" /\ response = Bare404
    /\ Occurrences(sanitized, IndexHtml) <= 1

\* The first open found a directory, the open of its index.html found a
\* directory again, and the request was answered.
C13_Witness ==
    /\ pc = "done" /\ Len(opens) = 2
    /\ opens[1].tag = "Dir" /\ opens[2].tag = "Dir"
    /\ opens[2].path = opens[1].path \o IndexHtml

\* The k-th open is the probe for the precompressed alternate: of the path
\* of the open before it, which found a File, with `.gz` appended.
GzProbeAt(k) ==
    /\ k >= 2 /\ k <= Len(opens)
    /\ opens[k - 1].tag = "File"
    /\ opens[k].path = opens[k - 1].path \o DotGz

\* Time a is strictly before time b.
StrictlyOlder(a, b) == a.secs < b.secs \/ (a.secs = b.secs /\ a.nanos < b.nanos)

\* The Content-Encoding of the response is gzip.
EncodedGzip == response.headers.content_encoding = <<"gzip">>

\* C14: when serve_files has returned after a `.gz` probe, the response is
\* encoded gzip only if the probe opened a regular file whose mode passes
\* and whose mtime is not strictly older than the base file's, and then
\* length and body are the `.gz` file's; if the probe failed, found a
\* directory or found a strictly older file, length and body are the base
\* file's and there is no encoding.
C14_GzipNeverStale ==
    (pc = "done" /\ GzProbeAt(Len(opens))) =>
        LET b == opens[Len(opens) - 1].res
            g == LastOpen.res
        IN  /\ EncodedGzip =>
                   /\ g.tag = "File"
                   /\ last_mode # None /\ ModePasses(last_mode)
                   /\ last_mode \div 4096 = 8
                   /\ ~StrictlyOlder(g.modified, b.modified)
                   /\ response.headers.content_length = <<g.len>>
                   /\ req.method = "GET" => response.body = <<LastOpen.path>>
            /\ (g.tag # "File" \/ StrictlyOlder(g.modified, b.modified)) =>
                   /\ response.status = 200
                   /\ response.headers.content_encoding = <<>>
                   /\ response.headers.content_length = <<b.len>>
                   /\ req.method = "GET" => response.body = <<opens[Len(opens) - 1].path>>

\* serve_files has returned the base file after the probe found a `.gz`
\* file of the same second but fewer nanoseconds.
C14_Witness ==
    /\ pc = "done" /\ GzProbeAt(Len(opens)) /\ LastOpen.tag = "File"
    /\ LastOpen.res.modified.secs = opens[Len(opens) - 1].res.modified.secs
    /\ LastOpen.res.modified.nanos < opens[Len(opens) - 1].res.modified.nanos
    /\ ~EncodedGzip /\ req.method = "GET"

\* The precompressed alternate was selected: the probe found a file that is
\* not strictly older than the base file.
GzSelected ==
    /\ GzProbeAt(Len(opens))
    /\ LastOpen.tag = "File"
    /\ ~StrictlyOlder(LastOpen.res.modified, opens[Len(opens) - 1].res.modified)

\* C15: when serve_files has returned, Content-Encoding: gzip is there if
\* and only if the alternate was selected (and no other encoding ever is),
\* and then Last-Modified is the second of the base file's mtime,
\* Content-Type is that of the base path's extension, Content-Length is the
\* `.gz` file's length, and the body of a GET is the `.gz` handle.
C15_GzipKeepsOriginalTypeAndDate ==
    pc = "done" =>
        /\ response.headers.content_encoding \in {<<>>, <<"gzip">>}
        /\ EncodedGzip <=> GzSelected
        /\ EncodedGzip =>
               LET b == opens[Len(opens) - 1]
                   g == LastOpen
               IN  /\ response.status = 200
                   /\ response.headers.last_modified = <<b.res.modified.secs>>
                   /\ response.headers.content_type = <<map_content_type(b.path)>>
                   /\ response.headers.content_length = <<g.res.len>>
                   /\ response.body = IF req.method = "GET" THEN <<g.path>> ELSE <<>>

\* serve_files has answered a GET of ./style.css with the `.gz` file, whose
\* second and length differ from the base file's.
C15_Witness ==
    /\ pc = "done" /\ req.method = "GET" /\ EncodedGzip
    /\ LastOpen.path = <<46, 47, 115, 116, 121, 108, 101, 46, 99, 115, 115, 46, 103, 122>>
    /\ response.headers.content_type = <<"text/css">>
    /\ LastOpen.res.modified.secs # opens[Len(opens) - 1].res.modified.secs
    /\ LastOpen.res.len # opens[Len(opens) - 1].res.len

\* s ends with t.
EndsWith(s, t) == Len(s) >= Len(t) /\ SubSeq(s, Len(s) - Len(t) + 1, Len(s)) = t

\* Some item of the value v, the items being what the commas of v delimit,
\* is `gzip` with nothing but whitespace around it.
HasGzipItemIn(v) ==
    \E i \in 1..Len(v) : \E j \in i..Len(v) :
        /\ i = 1 \/ v[i - 1] = 44
        /\ j = Len(v) \/ v[j + 1] = 44
        /\ \A n \in i..j : v[n] # 44
        /\ \E a \in i..j :
               /\ a + 3 <= j /\ SubSeq(v, a, a + 3) = <<103, 122, 105, 112>>
               /\ \A n \in (i..(a - 1)) \cup ((a + 4)..j) : v[n] \in {9, 10, 11, 12, 13, 32}

\* Some Accept-Encoding value of the request has such an item.
HasGzipItem ==
    \E k \in 1..Len(req.accept_encoding) : HasGzipItemIn(req.accept_encoding[k])

\* C16: a path ending in `.gz` is opened, or about to be opened, or a
\* Content-Encoding is in the response, only if some Accept-Encoding value
\* of the request, split on commas and trimmed, has an item equal to `gzip`.
C16_GzProbeOnlyIfGzipListed ==
    /\ (\E k \in 1..Len(opens) : EndsWith(opens[k].path, DotGz)) => HasGzipItem
    /\ (pc = "gzip" \/ EndsWith(sanitized, DotGz)) => HasGzipItem
    /\ response.headers.content_encoding # <<>> => HasGzipItem
    /\ (pc \notin {"start", "idle"} /\ accept_gzip) => HasGzipItem

\* The `.gz` was probed for a request whose second Accept-Encoding value is
\* `deflate, gzip`.
C16_Witness ==
    /\ pc = "done" /\ GzProbeAt(Len(opens))
    /\ Len(req.accept_encoding) = 2
    /\ req.accept_encoding[2] = <<100, 101, 102, 108, 97, 116, 101, 44, 32, 103, 122, 105, 112>>

\* C17 (SpecGetThenHead): when serve_files has returned for the HEAD that
\* follows a GET of the same path and headers on the same filesystem state,
\* status and the four headers are those of the GET's response, the same
\* paths were opened, and the body is empty; the GET's response has a body
\* exactly when its status is 200.
C17_HeadIsGetWithoutBody ==
    (pc = "done" /\ first # <<>>) =>
        /\ req.method = "HEAD"
        /\ response.status = first[1].response.status
        /\ response.headers.content_length = first[1].response.headers.content_length
        /\ response.headers.content_type = first[1].response.headers.content_type
        /\ response.headers.last_modified = first[1].response.headers.last_modified
        /\ response.headers.content_encoding = first[1].response.headers.content_encoding
        /\ opens = first[1].opens
        /\ response.body = <<>> /\ body_size = None
        /\ first[1].response.body # <<>> <=> first[1].response.status = 200

\* The HEAD after a GET that was answered with the gzip alternate has been
\* answered.
C17_Witness ==
    /\ pc = "done" /\ first # <<>> /\ response.status = 200 /\ EncodedGzip
    /\ first[1].response.body # <<>> /\ response.body = <<>>
    /\ response.headers.content_length # <<>>

\* C18, as stated: once the body of a GET answered 200 has been streamed,
\* the bytes written are as many as Content-Length says, whatever another
\* process did to the file's size meanwhile.
C18_ContentLengthIsBytesWritten ==
    (pc = "done" /\ req.method = "GET" /\ response.status = 200 /\ body_written # None) =>
        response.headers.content_length = <<body_written>>

\* The request has the empty path or the path `/`.
RootRequested == req.path \in {<<>>, <<47>>} /\ req.method \in {"GET", "HEAD"}

\* C19, as stated: for the empty path or `/`, the first open is of `./`,
\* and when it finds a directory the PathBuffer becomes `./index.html`,
\* which is the path then opened.
C19_RootIndexIsDotSlashIndexHtml ==
    RootRequested =>
        /\ opens # <<>> => (opens[1].path = <<46, 47>>)
        /\ pc = "index" => sanitized = <<46, 47, 105, 110, 100, 101, 120, 46, 104, 116, 109, 108>>
        /\ Len(opens) >= 2 => opens[2].path = <<46, 47, 105, 110, 100, 101, 120, 46, 104, 116, 109, 108>>

\* C19, amended: for the empty path or `/`, the first open is of `./` and
\* never finds a regular file; if it finds a directory, the PathBuffer
\* becomes `.//index.html`, and that is the path opened next; if it fails,
\* nothing else is opened.
C19_RootIndexHasDoubledSlash ==
    RootRequested =>
        /\ pc = "open" => sanitized = <<46, 47>>
        /\ opens # <<>> => (opens[1].path = <<46, 47>> /\ opens[1].tag # "File")
        /\ pc = "index" => sanitized = <<46, 47, 47, 105, 110, 100, 101, 120, 46, 104, 116, 109, 108>>
        /\ Len(opens) >= 2 =>
               (opens[1].tag = "Dir" /\ opens[2].path = <<46, 47, 47, 105, 110, 100, 101, 120, 46, 104, 116, 109, 108>>)

\* For the empty path, `./` was a directory and `.//index.html` was opened
\* and found to be a file.
C19_Witness ==
    /\ req.path = <<>> /\ req.method = "GET" /\ Len(opens) >= 2
    /\ opens[1].tag = "Dir"
    /\ opens[2].path = <<46, 47, 47, 105, 110, 100, 101, 120, 46, 104, 116, 109, 108>> /\ opens[2].tag = "File"

\* The request is GET /../../etc/passwd.
PasswdRequested == req.method = "GET" /\ req.path = <<47, 46, 46, 47, 46, 46, 47, 101, 116, 99, 47, 112, 97, 115, 115, 119, 100>>

\* C20, as stated: GET /../../etc/passwd opens `./:./:/etc/passwd` and is
\* answered 404.
C20_PasswdIsColonPathAnd404 ==
    PasswdRequested =>
        /\ opens # <<>> => opens[1].path = <<46, 47, 58, 46, 47, 58, 47, 101, 116, 99, 47, 112, 97, 115, 115, 119, 100>>
        /\ pc = "done" => response.status = 404

\* C20, amended: GET /../../etc/passwd opens `./:./:./etc/passwd`, and is
\* answered 404 unless picky_open finds a file there (or there behind
\* `/index.html`), when it is answered 200.
C20_PasswdStaysBelowRoot ==
    PasswdRequested =>
        /\ pc = "open" => sanitized = <<46, 47, 58, 46, 47, 58, 46, 47, 101, 116, 99, 47, 112, 97, 115, 115, 119, 100>>
        /\ opens # <<>> => opens[1].path = <<46, 47, 58, 46, 47, 58, 46, 47, 101, 116, 99, 47, 112, 97, 115, 115, 119, 100>>
        /\ pc = "done" =>
               /\ response.status = 404 <=> (\A k \in 1..Len(opens) : opens[k].tag # "File")
               /\ response.status = 200 <=> (\E k \in 1..Len(opens) : opens[k].tag = "File")
               /\ response.status = 404 => response = Bare404

\* GET /../../etc/passwd was answered 404 after the open of
\* `./:./:./etc/passwd` failed.
C20_Witness ==
    /\ PasswdRequested /\ pc = "done" /\ response.status = 404
    /\ Len(opens) = 1 /\ opens[1].path = <<46, 47, 58, 46, 47, 58, 46, 47, 101, 116, 99, 47, 112, 97, 115, 115, 119, 100>> /\ opens[1].err = "open"

\* p begins with `./`, holds no NUL, and no `.` of it after the first
\* follows a `/`.
CleanPath(p) ==
    /\ Len(p) >= 2 /\ p[1] = 46 /\ p[2] = 47
    /\ \A i \in 1..Len(p) : p[i] # 0
    /\ \A i \in 3..Len(p) : p[i] = 46 => p[i - 1] # 47

\* C24: every path picky_open was called with, and the PathBuffer whenever
\* picky_open is about to be called with it, begins with `./`, holds no NUL
\* and has no segment after the leading `./` that begins with `.`.
C24_OpenedPathsAreClean ==
    /\ \A k \in 1..Len(opens) : CleanPath(opens[k].path)
    /\ pc \in {"open", "index", "gzip"} => CleanPath(sanitized)

\* For `/.a%00/` the directory, its index.html and the `.gz` of that were
\* opened.
C24_Witness ==
    /\ pc = "done" /\ req.path = <<47, 46, 97, 37, 48, 48, 47>> /\ Len(opens) = 3
    /\ opens[1].path = <<46, 47, 58, 97, 95, 47>>
    /\ opens[2].path = <<46, 47, 58, 97, 95, 47, 47, 105, 110, 100, 101, 120, 46, 104, 116, 109, 108>>
    /\ opens[3].path = <<46, 47, 58, 97, 95, 47, 47, 105, 110, 100, 101, 120, 46, 104, 116, 109, 108, 46, 103, 122>>

\* ========================================================================
\* Properties of picky_open under concurrent renames (SpecPickyOpen)
\* ========================================================================
\* C21: when picky_open has returned a File or Dir, the object the handle
\* is of has a mode that passes and the type returned, and the length and
\* mtime of a File are that object's, whatever the path names by then; and
\* the errors `perms` and `type` are about that object as well.
C21_ResultDescribesOpenedObject ==
    ppc = "done" =>
        /\ presult.tag \in {"File", "Dir"} =>
               /\ handle # None
               /\ ModePasses(objects[handle].mode)
               /\ objects[handle].mode \div 4096 = (IF presult.tag = "File" THEN 8 ELSE 4)
        /\ presult.tag = "File" =>
               /\ presult.len = objects[handle].len
               /\ presult.modified = objects[handle].mtime
        /\ (presult.tag = "Err" /\ presult.err = "perms") =>
               (handle # None /\ ~ModePasses(objects[handle].mode))
        /\ (presult.tag = "Err" /\ presult.err = "type") =>
               (handle # None /\ objects[handle].mode \div 4096 \notin {4, 8})

\* picky_open has returned a File although, since the open, the path came
\* to name another object, one whose mode does not pass and whose length
\* differs.
C21_Witness ==
    /\ ppc = "done" /\ presult.tag = "File"
    /\ named # None /\ named # handle
    /\ ~ModePasses(objects[named].mode)
    /\ objects[named].len # presult.len

\* ========================================================================
\* Properties of start and drop_privs (SpecStart)
\* ========================================================================
PrivCalls == {"chdir", "chroot", "setgid", "setgroups", "setuid"}

\* The calls of the trace that are privileged operations, in order.
PrivTrace == SelectSeq(trace, LAMBDA e : e.call \in PrivCalls)

\* The privileged operations the arguments ask for, in the order of the
\* specification: chdir; chroot if requested; setgid(gid), setgroups([gid]) if
\* a GID was given; setuid(uid) if a UID was given.
ExpectedPrivOps(a) ==
    <<Op("chdir", None, <<>>, TRUE)>>
    \o (IF a.should_chroot THEN <<Op("chroot", None, <<>>, TRUE)>> ELSE <<>>)
    \o (IF a.gid # None
        THEN <<Op("setgid", a.gid, <<>>, TRUE), Op("setgroups", None, <<a.gid>>, TRUE)>>
        ELSE <<>>)
    \o (IF a.uid # None THEN <<Op("setuid", a.uid, <<>>, TRUE)>> ELSE <<>>)

\* drop_privs has returned Ok: start is past it.
PastDropPrivs == spc \in {"tls", "accept", "returned"} \/ \E i \in 1..Len(trace) : trace[i].call = "set_single_cert"

\* C7: the privileged operations performed so far are the first ones of the
\* expected sequence, with the expected arguments; only the last one performed
\* can have failed, and then start has failed; once drop_privs has returned
\* Ok the whole expected sequence has been performed, nothing else.
C7_DropPrivsOrder ==
    LET done == PrivTrace
        want == ExpectedPrivOps(args)
    IN  /\ Len(done) <= Len(want)
        /\ \A i \in 1..Len(done) : [done[i] EXCEPT !.ok = TRUE] = want[i]
        /\ \A i \in 1..(Len(done) - 1) : done[i].ok
        /\ (done # <<>> /\ ~done[Len(done)].ok) =>
               (spc = "failed" /\ trace[Len(trace)] = done[Len(done)])
        /\ PastDropPrivs => (done = want)

\* drop_privs has returned Ok after chroot, setgid, setgroups and setuid
\* were all asked for.
C7_Witness ==
    /\ spc = "tls"
    /\ args.should_chroot /\ args.gid # None /\ args.uid # None
    /\ Len(PrivTrace) = 5

\* The accept loop has been entered.
LoopEntered == spc \in {"accept", "returned"} \/ accepts > 0 \/ conns # <<>>

\* C8: whenever the accept loop has been entered, every start-up operation
\* succeeded and the operations were, in order: load_key_and_cert, bind, the
\* privileged operations of drop_privs (once), set_single_cert; the privilege
\* drop is never begun twice; and once an operation has failed, start has
\* failed, nothing was accepted and no connection task exists.
C8_DropOnceBetweenBindAndAccept ==
    /\ Cardinality({i \in 1..Len(trace) : trace[i].call = "chdir"}) <= 1
    /\ LoopEntered =>
           /\ \A i \in 1..Len(trace) : trace[i].ok
           /\ trace = <<Op("load_key_and_cert", None, <<>>, TRUE), Op("bind", None, <<>>, TRUE)>>
                      \o ExpectedPrivOps(args)
                      \o <<Op("set_single_cert", None, <<>>, TRUE)>>
    /\ (spc \in {"failed", "exited"} \/ \E i \in 1..Len(trace) : ~trace[i].ok) =>
           /\ spc \in {"failed", "exited"}
           /\ accepts = 0
           /\ conns = <<>>

\* A request has been served on an accepted connection.
C8_Witness ==
    \E i \in 1..Len(conns) : conns[i].requests > 0

\* One step of start and its tasks, as C22 allows it.
C22_Step ==
    /\ (spc = "accept" /\ spc' # "accept") =>
           (spc' = "returned" /\ accepts' = accepts /\ conns' = conns)
    /\ Len(conns') >= Len(conns)
    /\ accepts' # accepts =>
           /\ spc' = "accept"
           /\ SubSeq(conns', 1, Len(conns)) = conns
    /\ \A i \in 1..Len(conns) :
           /\ conns'[i] # conns[i] =>
                  /\ \A j \in 1..Len(conns') : j # i => (j <= Len(conns) /\ conns'[j] = conns[j])
                  /\ spc' = spc /\ accepts' = accepts
           /\ conns'[i].requests # conns[i].requests =>
                  (conns[i].tls = "ok" /\ conns[i].state = "serving")
           /\ conns[i].tls = "failed" =>
                  (conns'[i] = conns[i] /\ conns[i].requests = 0 /\ conns[i].state = "closed")
           /\ conns[i].state = "closed" => conns'[i] = conns[i]

\* C22: a failed accept leaves the loop accepting and every task as it
\* was; the loop is left only when the listener yields no more; a step of
\* one connection's task (a handshake that fails, a connection that ends
\* with an error) changes that connection alone and neither the loop nor
\* another task; and requests are handed to serve_files only on a
\* connection whose handshake succeeded.
C22_ConnectionErrorsAreIsolated == [][C22_Step]_vars

\* The loop is still accepting after one accept failed, the first
\* connection failed its handshake and the second served a request and its
\* serve_connection ended.
C22_Witness ==
    /\ spc = "accept" /\ accepts = 3 /\ Len(conns) = 2
    /\ conns[1].tls = "failed" /\ conns[1].state = "closed"
    /\ conns[2].requests > 0 /\ conns[2].state = "closed" /\ conns[2].tls = "ok"

\* ========================================================================
\* Properties of load_key_and_cert (SpecLoadKey)
\* ========================================================================
\* The places of the key file that hold a PKCS#8 key.
KeyPlaces == {i \in 1..Len(key_file.items) : key_file.items[i] # 0}

\* C23, as stated: for a key file that opens and parses, load_key_and_cert
\* fails when the file holds no PKCS#8 key, and otherwise the key it goes
\* on with, and returns, is the first PKCS#8 key of the file.
C23_LoadsFirstKey ==
    (lpc \in {"certs", "done"} /\ key_file.readable /\ key_file.wellformed) =>
        /\ KeyPlaces = {} => (lpc = "done" /\ loaded[1].tag = "Err")
        /\ loaded[1].tag \in {"Key", "Ok"} =>
               /\ KeyPlaces # {}
               /\ loaded[1].key =
                      key_file.items[CHOOSE i \in KeyPlaces : \A j \in KeyPlaces : i <= j]

====
